---- MODULE Spec2Model ----
(***************************************************************************)
(* State-machine model of the error-button JupyterLab extension            *)
(* (src/src/index.ts): the shared Configuration record, one notebook       *)
(* panel with its cells and their output lists, the "Analyze Error"        *)
(* buttons that checkForErrors appends to a cell's node, the modal         *)
(* configuration dialog, and the invocations of errorButton.onclick with   *)
(* their output areas and remote requests.                                 *)
(*                                                                         *)
(* The host is single threaded: every action below is one event-loop task  *)
(* together with the microtasks it schedules (a promise's then / catch /   *)
(* finally callbacks run back to back).  The only suspension points are    *)
(* `await showDialog` and the pending axios request.  The dialog is modal: *)
(* while it is open no button can be activated, but notifications of the   *)
(* notebook model (cells.changed, outputs changed) and request settlements *)
(* still run.                                                              *)
(***************************************************************************)
EXTENDS Integers, Sequences, FiniteSets, TLC

(* ------------------------------ bounds --------------------------------- *)
MaxControls == 2
MaxInv == 2
MaxSubs == 2

(* ------------------------------ values --------------------------------- *)
\* the cells of the notebook in document order (notebook.widgets)
Widgets == <<"c1", "c2">>
Cells == {Widgets[i] : i \in DOMAIN Widgets}

\* an error output with its stderr payload, and a non-error output
Err(t) == [type |-> "error", text |-> t]
Stream == [type |-> "stream", text |-> "out"]

\* the output lists a code cell may hold: none, one error, two errors (the
\* first with another payload), an error behind a non-error
OutputLists == {<<>>, <<Err("e1")>>, <<Err("e2"), Err("e1")>>, <<Stream, Err("e1")>>}

\* the cell types of the two widgets: both code cells, or a markdown cell second
CellTypes ==
    {[c \in Cells |-> "code"],
     [c \in Cells |-> IF c = Widgets[1] THEN "code" ELSE "markdown"]}

\* what the user may leave in the three fields of InputDialog on OK: the
\* defaults with the key still empty, or all three fields changed
DialogValues ==
    {[secret_key |-> "", language |-> "KR", prompt |-> "P0"],
     [secret_key |-> "k1", language |-> "EN", prompt |-> "P1"]}

\* what the transport may answer
Responses == {"r1"}
Rejections == {"m1"}

Loading == "Loading..."

VARIABLES
    Configuration,   \* the module-level Config record
    opened,          \* notebooks.widgetAdded has fired for the panel
    hasModel,        \* notebook.model !== null
    cellState,       \* per cell: "absent" (not created yet), "present", "removed"
    cellType,        \* per cell: cell.model.type
    outputs,         \* per cell: codeCellModel.outputs
    subs,            \* per cell: number of slots connected to outputArea.model.changed
    controls,        \* every errorButton created so far, in creation order
    invs,            \* every run of errorButton.onclick so far
    dialog,          \* the modal dialog: open or not, and who awaits it
    everErr          \* observation: cell was scanned at least once with an error first

vars == <<Configuration, opened, hasModel, cellState, cellType, outputs, subs,
          controls, invs, dialog, everErr>>

(* ------------------------- src/src/index.ts ---------------------------- *)

\* line 25-31
DefaultConfiguration == [SECRET_KEY |-> "", LANGUAGE |-> "KR", PROMPT |-> "P0"]

\* line 150: codeCellModel.outputs.length > 0 && outputs.get(0)['type'] === 'error'
\* (HasErrorAny: the faulty variant that looks at every index)
HasErrorAny(outs) == \E i \in 1..Len(outs) : outs[i].type = "error"
HasError(outs) == Len(outs) > 0 /\ outs[1].type = "error"

\* line 151: outputs.get(0).data['application/vnd.jupyter.stderr']
\* (ErrorMessageLast: the faulty variant that reads the last output)
ErrorMessageLast(outs) == outs[Len(outs)].text
ErrorMessage(outs) == outs[1].text

\* line 101 / 110: cell.model.type === 'code', for the widgets of the notebook
IsCodeWidget(c) == cellState[c] = "present" /\ cellType[c] = "code"

\* line 149-215: one call of checkForErrors on cell c with output list outs;
\* the only synchronous effect is appending a fresh button to cell.node
checkForErrors(ctrls, c, outs) ==
    IF HasError(outs)
    THEN Append(ctrls, [cell |-> c, errorMessage |-> ErrorMessage(outs), disabled |-> FALSE])
    ELSE ctrls

\* n slots connected to the same signal each call checkForErrors (line 115-117)
RECURSIVE EmitOutputChanged(_, _, _, _)
EmitOutputChanged(ctrls, c, outs, n) ==
    IF n = 0 THEN ctrls
    ELSE EmitOutputChanged(checkForErrors(ctrls, c, outs), c, outs, n - 1)

\* line 100-106 and 109-119: notebook.widgets.forEach with the code-cell filter
RECURSIVE ScanWidgets(_, _, _)
ScanWidgets(ctrls, state, i) ==
    IF i > Len(Widgets) THEN ctrls
    ELSE LET c == Widgets[i]
         IN  ScanWidgets(IF state[c] = "present" /\ cellType[c] = "code"
                         THEN checkForErrors(ctrls, c, outputs[c])
                         ELSE ctrls,
                         state, i + 1)

\* line 173: errorButton.disabled = true
\* (DisableButtonSkip: the faulty variant without that line)
DisableButtonSkip(ctrls, k) == ctrls
DisableButton(ctrls, k) == [ctrls EXCEPT ![k].disabled = TRUE]

\* line 205-208: .finally(() => { errorButton.disabled = false })
\* (FinallySkip: the faulty variant without the finally callback)
FinallySkip(ctrls, k) == ctrls
Finally(ctrls, k) == [ctrls EXCEPT ![k].disabled = FALSE]

\* line 198-202: model.add of a stdout stream output to the model that still
\* holds the stdout placeholder (the catch callback does not clear it).  The
\* host's OutputAreaModel either keeps two outputs or folds consecutive outputs
\* of one stream into a single output with the concatenated text
AddStream(region, text) ==
    {Append(region, text)} \cup
    (IF region = <<>> THEN {} ELSE {[region EXCEPT ![Len(region)] = @ \o text]})

\* line 188-193: model.clear() and model.add of the returned text
\* (ThenRenderNoClear: the faulty variant without model.clear())
ThenRenderNoClear(region, t) == Append(region, t)
ThenRender(region, t) == <<t>>

\* line 172-210: the part of onclick after the credential block: disable the
\* button, create the output area with the placeholder, issue the request with
\* the values read from Configuration now, attach the area to the cell
\* (StartRequestDetached: the faulty variant without line 210;
\*  StartRequestStale: the faulty variant that reads Configuration before the
\*  dialog's assignments)
StartRequestDetached(inv, cfg) ==
    [inv EXCEPT !.pc = "loading",
                !.region = <<Loading>>,
                !.prompt = cfg.PROMPT \o controls[inv.control].errorMessage,
                !.key = cfg.SECRET_KEY]
StartRequestStale(inv, cfg) ==
    [inv EXCEPT !.pc = "loading",
                !.region = <<Loading>>,
                !.attached = TRUE,
                !.prompt = Configuration.PROMPT \o controls[inv.control].errorMessage,
                !.key = Configuration.SECRET_KEY]
StartRequest(inv, cfg) ==
    [inv EXCEPT !.pc = "loading",
                !.region = <<Loading>>,
                !.attached = TRUE,
                !.prompt = cfg.PROMPT \o controls[inv.control].errorMessage,
                !.key = cfg.SECRET_KEY]

\* line 156: a run of onclick that has not passed the credential block yet; its
\* output area does not exist
NewInvocation(k) ==
    [control |-> k, pc |-> "dialog", region |-> <<>>, attached |-> FALSE,
     prompt |-> "", key |-> ""]

NoDialog == [open |-> FALSE, owner |-> 0]

\* the extension is activated and no panel has been announced yet.  The first
\* widget may already be in the notebook with any output list, the second one is
\* created later; a panel without a model has no cells
Init ==
    /\ Configuration = DefaultConfiguration
    /\ opened = FALSE
    /\ hasModel \in BOOLEAN
    /\ cellType \in CellTypes
    /\ cellState \in [Cells -> {"absent", "present"}]
    /\ cellState[Widgets[2]] = "absent"
    /\ outputs \in [Cells -> OutputLists]
    /\ \A c \in Cells : (cellState[c] = "absent" \/ cellType[c] = "markdown") => outputs[c] = <<>>
    /\ ~hasModel => \A c \in Cells : cellState[c] = "absent"
    /\ subs = [c \in Cells |-> 0]
    /\ controls = <<>>
    /\ invs = <<>>
    /\ dialog = NoDialog
    /\ everErr = [c \in Cells |-> FALSE]

\* observation variables after a step that scanned cell c n[c] times
Observe(n) ==
    everErr' = [c \in Cells |->
                  everErr[c] \/ (n[c] > 0 /\ Len(outputs'[c]) > 0 /\ outputs'[c][1].type = "error")]

NoScan == [c \in Cells |-> 0]

\* line 71-121: both widgetAdded slots: the toolbar button, then the initial scan
\* and the connection to notebook.model.cells.changed
WidgetAdded ==
    /\ ~opened
    /\ opened' = TRUE
    /\ controls' = IF hasModel THEN ScanWidgets(controls, cellState, 1) ELSE controls
    /\ Len(controls') <= MaxControls
    /\ UNCHANGED <<Configuration, hasModel, cellState, cellType, outputs, subs, invs, dialog>>
    /\ Observe([c \in Cells |-> IF hasModel /\ IsCodeWidget(c) THEN 1 ELSE 0])

\* line 108-120: the slot of notebook.model.cells.changed, run after the cell
\* list became state
CellsChanged(state) ==
    /\ cellState' = state
    /\ controls' = ScanWidgets(controls, state, 1)
    /\ subs' = [c \in Cells |->
                  IF state[c] = "present" /\ cellType[c] = "code" THEN subs[c] + 1 ELSE subs[c]]
    /\ Observe([c \in Cells |-> IF state[c] = "present" /\ cellType[c] = "code" THEN 1 ELSE 0])
    /\ Len(controls') <= MaxControls
    /\ \A c \in Cells : subs'[c] <= MaxSubs
    /\ UNCHANGED <<Configuration, opened, hasModel, cellType, invs, dialog>>

AddCell(c) ==
    /\ opened /\ hasModel
    /\ cellState[c] = "absent"
    /\ outputs' = outputs
    /\ CellsChanged([cellState EXCEPT ![c] = "present"])

RemoveCell(c) ==
    /\ opened /\ hasModel
    /\ cellState[c] = "present"
    /\ outputs' = [outputs EXCEPT ![c] = <<>>]
    /\ CellsChanged([cellState EXCEPT ![c] = "removed"])

\* the kernel (or a clear) changes the output list of a code cell; every slot
\* connected at line 115 runs checkForErrors on that cell
OutputChange(c, outs) ==
    /\ opened
    /\ IsCodeWidget(c)
    /\ outs # outputs[c]
    /\ outputs' = [outputs EXCEPT ![c] = outs]
    /\ controls' = EmitOutputChanged(controls, c, outs, subs[c])
    /\ Len(controls') <= MaxControls
    /\ UNCHANGED <<Configuration, opened, hasModel, cellState, cellType, subs, invs, dialog>>
    /\ Observe([d \in Cells |-> IF d = c THEN subs[c] ELSE 0])

\* line 75-81: the toolbar button opens the dialog
ToolbarClick ==
    /\ opened
    /\ ~dialog.open
    /\ dialog' = [open |-> TRUE, owner |-> 0]
    /\ UNCHANGED <<Configuration, opened, hasModel, cellState, cellType, outputs, subs,
                   controls, invs>>
    /\ Observe(NoScan)

\* line 156-210: the user activates button k
Click(k) ==
    /\ k \in 1..Len(controls)
    /\ ~controls[k].disabled
    /\ cellState[controls[k].cell] = "present"
    /\ ~dialog.open
    /\ Len(invs) < MaxInv
    /\ IF Configuration.SECRET_KEY = ""
       THEN /\ invs' = Append(invs, NewInvocation(k))
            /\ dialog' = [open |-> TRUE, owner |-> Len(invs) + 1]
            /\ UNCHANGED controls
       ELSE /\ invs' = Append(invs, StartRequest(NewInvocation(k), Configuration))
            /\ controls' = DisableButton(controls, k)
            /\ UNCHANGED dialog
    /\ UNCHANGED <<Configuration, opened, hasModel, cellState, cellType, outputs, subs>>
    /\ Observe(NoScan)

\* line 82-87 and 164-169: dialog.getValue() stored field by field
\* (StoreSwapped: the faulty variant that mixes up two fields)
StoreSwapped(v) == [SECRET_KEY |-> v.secret_key, LANGUAGE |-> v.prompt, PROMPT |-> v.language]
Store(v) == [SECRET_KEY |-> v.secret_key, LANGUAGE |-> v.language, PROMPT |-> v.prompt]

\* the user closes the dialog; answer is "accept" or "cancel".  The toolbar's
\* onClick ends there; errorButton.onclick continues at line 172 either way
DialogClose(answer, v) ==
    /\ dialog.open
    /\ dialog' = NoDialog
    /\ Configuration' = IF answer = "accept" THEN Store(v) ELSE Configuration
    /\ IF dialog.owner = 0
       THEN UNCHANGED <<invs, controls>>
       ELSE LET i == dialog.owner
                k == invs[i].control
            IN  /\ invs' = [invs EXCEPT ![i] = StartRequest(invs[i], Configuration')]
                /\ controls' = DisableButton(controls, k)
    /\ UNCHANGED <<opened, hasModel, cellState, cellType, outputs, subs>>
    /\ Observe(NoScan)

DialogAccept(v) == DialogClose("accept", v)
\* (DialogCancelStores: the faulty variant that stores the fields as typed
\*  although the dialog was cancelled)
DialogCancelStores ==
    DialogClose("accept", [secret_key |-> "k", language |-> "KR", prompt |-> "P0"])
DialogCancel == DialogClose("cancel", [secret_key |-> "", language |-> "", prompt |-> ""])

\* line 186-195 and 205-208: the request of invocation i resolves with text t
Resolve(i, t) ==
    /\ i \in 1..Len(invs)
    /\ invs[i].pc = "loading"
    /\ invs' = [invs EXCEPT ![i].pc = "succeeded", ![i].region = ThenRender(@, t),
                             ![i].prompt = "", ![i].key = ""]
    /\ controls' = Finally(controls, invs[i].control)
    /\ UNCHANGED <<Configuration, opened, hasModel, cellState, cellType, outputs, subs, dialog>>
    /\ Observe(NoScan)

\* line 143-146, 196-204 and 205-208: the request rejects with message m
Reject(i, m) ==
    /\ i \in 1..Len(invs)
    /\ invs[i].pc = "loading"
    /\ \E r \in AddStream(invs[i].region, m) :
          invs' = [invs EXCEPT ![i].pc = "failed", ![i].region = r,
                               ![i].prompt = "", ![i].key = ""]
    /\ controls' = Finally(controls, invs[i].control)
    /\ UNCHANGED <<Configuration, opened, hasModel, cellState, cellType, outputs, subs, dialog>>
    /\ Observe(NoScan)

Settle(i) == (\E t \in Responses : Resolve(i, t)) \/ (\E m \in Rejections : Reject(i, m))

Next ==
    \/ WidgetAdded
    \/ \E c \in Cells : AddCell(c)
    \/ \E c \in Cells : RemoveCell(c)
    \/ \E c \in Cells, outs \in OutputLists : OutputChange(c, outs)
    \/ ToolbarClick
    \/ \E k \in 1..MaxControls : Click(k)
    \/ \E v \in DialogValues : DialogAccept(v)
    \/ DialogCancel
    \/ \E i \in 1..MaxInv, t \in Responses : Resolve(i, t)
    \/ \E i \in 1..MaxInv, m \in Rejections : Reject(i, m)

Spec == Init /\ [][Next]_vars

\* the transport resolves or rejects every request it was handed
FairSpec == Spec /\ \A i \in 1..MaxInv : WF_vars(Settle(i))

(* ------------------------------ claims --------------------------------- *)

\* what is attached to the node of cell c: buttons, and the output areas of the
\* invocations that reached line 210
ControlsOf(c) == {k \in 1..Len(controls) : controls[k].cell = c}
NumControls(c) == Cardinality(ControlsOf(c))
RegionsOf(c) == {i \in 1..Len(invs) : invs[i].attached /\ controls[invs[i].control].cell = c}
InFlight(k) == {i \in 1..Len(invs) : invs[i].pc = "loading" /\ invs[i].control = k}

\* the first output of cell c is tagged error
FirstIsError(c) == Len(outputs[c]) > 0 /\ outputs[c][1].type = "error"

\* a step in which the widget of cell c is visited by a scan: the panel is
\* announced, the cell list changes, or the outputs of c change while a slot is
\* connected to them
ScannedInStep(c) ==
    /\ cellState'[c] = "present"
    /\ hasModel
    /\ \/ ~opened /\ opened'
       \/ cellState' # cellState
       \/ outputs'[c] # outputs[c] /\ subs[c] > 0

\* C1: a cell whose first output is an error and that was scanned with it
\* carries exactly one button, however often it was scanned since.
C1_ExactlyOneControl ==
    \A c \in Cells :
        (IsCodeWidget(c) /\ FirstIsError(c) /\ everErr[c]) => NumControls(c) = 1

\* C2: a scan of a cell that carries a button while its output list is empty
\* or its first output is not an error leaves the cell with no button and no
\* result region.
C2_ClearedOnScan ==
    [][\A c \in Cells :
          (ScannedInStep(c) /\ cellType[c] = "code" /\ NumControls(c) > 0 /\ ~FirstIsError(c)')
              => (NumControls(c)' = 0 /\ RegionsOf(c)' = {})]_vars

\* C3: cancelling the dialog that a button opened because the key was empty
\* ends the invocation: no request, no result region, the button stays enabled,
\* the configuration is unchanged.
C3_CancelReturnsToIdle ==
    [][(DialogCancel /\ dialog.owner # 0)
          => LET i == dialog.owner
             IN  /\ invs'[i].pc # "loading"
                 /\ invs'[i].region = <<>>
                 /\ ~controls'[invs[i].control].disabled
                 /\ Configuration' = Configuration]_vars

\* C4: no request is in flight that was issued with an empty stored key.
C4_NoRequestWithEmptyKey ==
    \A i \in 1..Len(invs) : invs[i].pc = "loading" => invs[i].key # ""

\* C5: after the request of an invocation rejected, its result region holds
\* exactly one entry, the message of the rejection.
C5_RejectionShowsOnlyMessage ==
    \A i \in 1..Len(invs) :
        invs[i].pc = "failed" => invs[i].region \in {<<m>> : m \in Rejections}

\* C6: the step that settles a request leaves the issuing button enabled, also
\* when its cell was removed meanwhile, and (the transport settling every
\* request) a disabled button is always enabled again.
C6_ReenabledAfterSettle ==
    /\ [][\A i \in 1..Len(invs) :
            (invs[i].pc = "loading" /\ invs'[i].pc # "loading")
                => ~controls'[invs[i].control].disabled]_vars
    /\ \A k \in 1..MaxControls :
            (k <= Len(controls) /\ controls[k].disabled)
                ~> (k <= Len(controls) /\ ~controls[k].disabled)

\* a request failed on a button whose cell had been removed, and the button is enabled
C6_Witness ==
    \E i \in 1..Len(invs) :
        /\ invs[i].pc = "failed"
        /\ cellState[controls[invs[i].control].cell] = "removed"
        /\ ~controls[invs[i].control].disabled

\* C7: a button has at most one request in flight, and is disabled while it
\* has one.
C7_OneRequestPerControl ==
    \A k \in 1..Len(controls) :
        /\ Cardinality(InFlight(k)) <= 1
        /\ InFlight(k) # {} => controls[k].disabled

\* a button was activated again after its first request settled, went through
\* the dialog with the key left empty, and has its second request in flight
C7_Witness ==
    \E i, j \in 1..Len(invs) :
        /\ invs[i].control = invs[j].control
        /\ invs[i].pc \in {"succeeded", "failed"}
        /\ invs[j].pc = "loading"
        /\ invs[j].key = ""

\* C8: when the outputs of a code cell of an announced panel with a model
\* change, the cell is scanned again: if the first output now is an error, a
\* button bound to it is attached in that step.
C8_OutputChangeRescans ==
    [][\A c \in Cells :
          (/\ opened /\ hasModel
           /\ IsCodeWidget(c) /\ cellState' = cellState
           /\ outputs'[c] # outputs[c]
           /\ FirstIsError(c)')
              => \E k \in ControlsOf(c)' :
                    k > Len(controls) /\ controls'[k].errorMessage = outputs'[c][1].text]_vars

\* C9: a step after which the first output of a cell is not an error attaches
\* no button to it, and a cell that was never scanned with an error first
\* carries no button.
C9_NoControlWithoutError ==
    /\ [](\A c \in Cells : ~everErr[c] => NumControls(c) = 0)
    /\ [][\A c \in Cells : ~FirstIsError(c)' => ControlsOf(c)' = ControlsOf(c)]_vars

\* a code cell of an announced panel holds an error behind a non-error, was
\* scanned, and carries no button
C9_Witness ==
    \E c \in Cells :
        /\ opened /\ hasModel /\ IsCodeWidget(c)
        /\ subs[c] > 0
        /\ outputs[c] = <<Stream, Err("e1")>>
        /\ ~everErr[c]
        /\ NumControls(c) = 0

\* C10: a scan attaches a button to a cell iff the cell is a code cell whose
\* output list is not empty and starts with an error; the button is bound to
\* the payload of that first output; a step without a scan of the cell attaches
\* none.
C10_ScanFlagsIndexZero ==
    [][\A c \in Cells :
          LET new == {k \in ControlsOf(c)' : k > Len(controls)}
          IN  /\ ScannedInStep(c) => ((new # {}) <=> (cellType[c] = "code" /\ FirstIsError(c)'))
              /\ ~ScannedInStep(c) => new = {}
              /\ \A k \in new : controls'[k].errorMessage = outputs'[c][1].text]_vars

\* a cell with two errors carries a button bound to the first payload, while
\* another scanned code cell with an error at index 1 carries none
C10_Witness ==
    \E c, d \in Cells :
        /\ outputs[c] = <<Err("e2"), Err("e1")>>
        /\ \E k \in ControlsOf(c) : controls[k].errorMessage = "e2"
        /\ IsCodeWidget(d) /\ subs[d] > 0
        /\ outputs[d] = <<Stream, Err("e1")>>
        /\ NumControls(d) = 0

\* C11: accepting the dialog (opened by the toolbar button or by a button's
\* credential prompt) makes the three stored fields equal to the three
\* submitted values; cancelling it leaves all three as they were.
C11_DialogRoundTrip ==
    [][/\ \A v \in DialogValues :
            DialogAccept(v) => /\ Configuration'.SECRET_KEY = v.secret_key
                               /\ Configuration'.LANGUAGE = v.language
                               /\ Configuration'.PROMPT = v.prompt
       /\ DialogCancel => /\ Configuration'.SECRET_KEY = Configuration.SECRET_KEY
                          /\ Configuration'.LANGUAGE = Configuration.LANGUAGE
                          /\ Configuration'.PROMPT = Configuration.PROMPT]_vars

\* all three fields were replaced by an accepted dialog, which is closed again
C11_Witness ==
    /\ ~dialog.open
    /\ Configuration = [SECRET_KEY |-> "k1", LANGUAGE |-> "EN", PROMPT |-> "P1"]

\* C12: the step in which the request of an invocation resolves with text t
\* leaves the invocation's result region with exactly one entry, t, and a
\* succeeded invocation never shows the placeholder.
C12_ResolveShowsOnlyText ==
    /\ [](\A i \in 1..Len(invs) :
            invs[i].pc = "succeeded"
                => (invs[i].region \in {<<t>> : t \in Responses} /\ invs[i].region # <<Loading>>))
    /\ [][\A i \in 1..Len(invs), t \in Responses :
            Resolve(i, t) => invs'[i].region = <<t>>]_vars

\* a request resolved and its region, attached to a present cell, shows the text
C12_Witness ==
    \E i \in 1..Len(invs) :
        /\ invs[i].pc = "succeeded"
        /\ invs[i].region = <<"r1">>
        /\ cellState[controls[invs[i].control].cell] = "present"

\* invocations i and j both have a request in flight, on buttons of different cells
BothInFlight(i, j) ==
    /\ i # j
    /\ invs[i].pc = "loading" /\ invs[j].pc = "loading"
    /\ controls[invs[i].control].cell # controls[invs[j].control].cell

\* C13: while requests of two different cells are in flight, the step that
\* settles one leaves its own region showing only its response or only its
\* failure message, and leaves the other invocation's region and request and
\* the other button untouched.
C13_IndependentSettlement ==
    [][\A i, j \in 1..Len(invs) :
          (BothInFlight(i, j) /\ invs'[i].pc # "loading")
              => /\ \/ \E t \in Responses : Resolve(i, t) /\ invs'[i].region = <<t>>
                    \/ \E m \in Rejections : Reject(i, m) /\ invs'[i].region = <<m>>
                 /\ invs[i].control # invs[j].control
                 /\ invs'[j] = invs[j]
                 /\ controls'[invs[j].control] = controls[invs[j].control]]_vars

\* the part of C13 about the other cell alone: settling one request changes
\* nothing of the other invocation or its button.
C13_OtherInvocationUntouched ==
    [][\A i, j \in 1..Len(invs) :
          (BothInFlight(i, j) /\ invs'[i].pc # "loading")
              => /\ invs[i].control # invs[j].control
                 /\ invs'[j] = invs[j]
                 /\ controls'[invs[j].control] = controls[invs[j].control]]_vars

\* C14: after a scan of a cell whose first output is an error, every button
\* on that cell is bound to the payload of that output.
C14_ReboundOnRescan ==
    [][\A c \in Cells :
          (ScannedInStep(c) /\ cellType[c] = "code" /\ FirstIsError(c)')
              => \A k \in ControlsOf(c)' : controls'[k].errorMessage = outputs'[c][1].text]_vars

\* C15: while a request is in flight, the issuing button is disabled and the
\* invocation's region is attached to the cell and holds exactly the
\* placeholder.
C15_LoadingState ==
    \A i \in 1..Len(invs) :
        invs[i].pc = "loading"
            => /\ controls[invs[i].control].disabled
               /\ i \in RegionsOf(controls[invs[i].control].cell)
               /\ invs[i].region = <<Loading>>

\* a request issued with a stored key is in flight on a present cell, whose
\* node holds the region with the placeholder
C15_Witness ==
    \E i \in 1..Len(invs) :
        /\ invs[i].pc = "loading" /\ invs[i].key = "k1"
        /\ cellState[controls[invs[i].control].cell] = "present"
        /\ i \in RegionsOf(controls[invs[i].control].cell)
        /\ invs[i].region = <<Loading>>

\* C16: the request issued by an activation carries the stored prompt
\* template followed by the error text of its button, and the stored key, as
\* stored in the state the request is issued in (after the dialog's
\* assignments); no later step changes a request in flight.
C16_RequestReadsConfigAtIssue ==
    [][\A i \in 1..Len(invs') :
          /\ (invs'[i].pc = "loading" /\ (i > Len(invs) \/ invs[i].pc # "loading"))
                => /\ invs'[i].prompt = Configuration'.PROMPT \o controls[invs'[i].control].errorMessage
                   /\ invs'[i].key = Configuration'.SECRET_KEY
          /\ (i <= Len(invs) /\ invs[i].pc = "loading" /\ invs'[i].pc = "loading")
                => (invs'[i].prompt = invs[i].prompt /\ invs'[i].key = invs[i].key)]_vars

\* a request issued with the key and template of an accepted dialog is still
\* in flight, unchanged, after the configuration was changed again
C16_Witness ==
    \E i \in 1..Len(invs) :
        /\ invs[i].pc = "loading"
        /\ invs[i].key = "k1"
        /\ invs[i].prompt = "P1" \o controls[invs[i].control].errorMessage
        /\ Configuration.SECRET_KEY = "" /\ Configuration.PROMPT = "P0"

\* C17: the stored configuration changes only in a step that accepts a
\* dialog; announcing the panel, cell and output changes with their scans,
\* opening and cancelling a dialog, activating a button and settling a
\* request leave all three fields unchanged.
C17_ConfigChangesOnlyOnAccept ==
    [][/\ Configuration' # Configuration => \E v \in DialogValues : DialogAccept(v)
       /\ (\/ WidgetAdded
           \/ \E c \in Cells : AddCell(c) \/ RemoveCell(c)
           \/ \E c \in Cells, outs \in OutputLists : OutputChange(c, outs)
           \/ ToolbarClick
           \/ \E k \in 1..MaxControls : Click(k)
           \/ DialogCancel
           \/ \E i \in 1..MaxInv : Settle(i))
             => Configuration' = Configuration]_vars

\* the configuration was changed by an accepted dialog and has stayed so while
\* one request resolved, another failed and a dialog was opened again
C17_Witness ==
    /\ Configuration.SECRET_KEY = "k1"
    /\ dialog.open
    /\ \E i, j \in 1..Len(invs) : invs[i].pc = "succeeded" /\ invs[j].pc = "failed"

\* C18: a code cell has at most one slot connected to the change signal of
\* its outputs, so one change of its outputs scans it exactly once: if the
\* first output now is an error, exactly one button is attached in that step.
C18_OneSubscriptionPerCell ==
    /\ [](\A c \in Cells : subs[c] <= 1)
    /\ [][\A c \in Cells :
            (/\ IsCodeWidget(c) /\ cellState' = cellState
             /\ subs[c] > 0
             /\ outputs'[c] # outputs[c]
             /\ FirstIsError(c)')
                => NumControls(c)' = NumControls(c) + 1]_vars

====
